---- MODULE Spec2Model ----
(***************************************************************************)
(* The text-to-tensor preprocessing pipeline of Lab_05/IT21184208_Q3.ipynb: *)
(* load_data, clean_text, preprocess_text (Tokenizer + pad_sequences) and  *)
(* encode_labels, run in the order of the notebook's script cells.         *)
(*                                                                         *)
(* A string is a sequence of one-character strings.  A CSV row is a record *)
(* [review, sentiment, nfields]; an empty cell is what read_csv parses as  *)
(* a missing value.                                                        *)
(***************************************************************************)
EXTENDS Integers, Sequences, FiniteSets, TLC

VARIABLES
    text, cleaned, recleaned, cpc,      \* clean_text applied once and twice
    file,                               \* the CSV file at file_path
    pc,                                 \* position in the script
    err,                                \* the exception that ended the script
    reviews, sentiments,                \* the two Series load_data returns
    max_words, max_len,                 \* script globals set in cell 9
    sequences,                          \* local of preprocess_text
    tokenizer,                          \* the fitted Tokenizer
    X, y,                               \* padded sequences and labels
    fits,                               \* calls of fit_on_texts made so far
    X_train, X_test, y_train, y_test    \* what train_test_split returns

cleanVars == <<text, cleaned, recleaned, cpc>>
splitVars == <<X_train, X_test, y_train, y_test>>
pipeVars == <<file, pc, err, reviews, sentiments, max_words, max_len,
              sequences, tokenizer, X, y, fits, X_train, X_test, y_train, y_test>>
vars == <<text, cleaned, recleaned, cpc, file, pc, err, reviews, sentiments,
          max_words, max_len, sequences, tokenizer, X, y, fits,
          X_train, X_test, y_train, y_test>>

----------------------------------------------------------------------------
(* Bounds of the checked inputs. *)

MaxTextLen == 5
MaxRows == 2
MaxTextRows == 2
MaxTokens == 4
MaxWordsCap == 3
MaxLenCap == 2
MaxRunTokens == 3

----------------------------------------------------------------------------
(* Characters. *)

LowerSeq == <<"a","b","c","d","e","f","g","h","i","j","k","l","m",
              "n","o","p","q","r","s","t","u","v","w","x","y","z">>
UpperSeq == <<"A","B","C","D","E","F","G","H","I","J","K","L","M",
              "N","O","P","Q","R","S","T","U","V","W","X","Y","Z">>

Range(s) == {s[i] : i \in DOMAIN s}

\* [A-Za-z]
Letters == Range(LowerSeq) \cup Range(UpperSeq)

\* \s
Whitespace == {" ", "\t", "\n", "\r", "\f"}

IsLetter(c) == c \in Letters
IsSpace(c) == c \in Whitespace

\* re.sub(r"[^A-Za-z\s]", "", text)
ReSubNonLetter(s) == SelectSeq(s, LAMBDA c : IsLetter(c) \/ IsSpace(c))

\* re.sub(r"\s+", " ", text): every maximal run of whitespace becomes " "
RECURSIVE ReSubSpaces(_)
ReSubSpaces(s) ==
    IF s = <<>> THEN <<>>
    ELSE IF IsSpace(Head(s))
         THEN IF Len(s) > 1 /\ IsSpace(s[2])
              THEN ReSubSpaces(Tail(s))
              ELSE <<" ">> \o ReSubSpaces(Tail(s))
         ELSE <<Head(s)>> \o ReSubSpaces(Tail(s))

RECURSIVE LStrip(_)
LStrip(s) == IF s # <<>> /\ IsSpace(Head(s)) THEN LStrip(Tail(s)) ELSE s

RECURSIVE RStrip(_)
RStrip(s) ==
    IF s # <<>> /\ IsSpace(s[Len(s)]) THEN RStrip(SubSeq(s, 1, Len(s) - 1)) ELSE s

\* str.strip()
Strip(s) == RStrip(LStrip(s))

clean_text_NoStrip(s) == ReSubSpaces(ReSubNonLetter(s))

clean_text_CollapseFirst(s) == Strip(ReSubNonLetter(ReSubSpaces(s)))

clean_text(s) == Strip(ReSubSpaces(ReSubNonLetter(s)))

----------------------------------------------------------------------------
(* Tokenizer(num_words=max_words) with the library defaults lower=True,    *)
(* split=" ", oov_token=None, and pad_sequences with the defaults          *)
(* padding="pre", truncating="pre", value=0.                               *)

IndexOf(s, e) == CHOOSE i \in DOMAIN s : s[i] = e

ToLower(c) == IF c \in Range(UpperSeq) THEN LowerSeq[IndexOf(UpperSeq, c)] ELSE c

\* the characters of the default filters argument that the alphabet holds
KerasFilters == {"!", "\t", "\n"}

\* s.split(" ") without the empty strings
RECURSIVE SplitWords(_, _)
SplitWords(s, cur) ==
    IF s = <<>> THEN (IF cur = <<>> THEN <<>> ELSE <<cur>>)
    ELSE IF Head(s) = " "
         THEN (IF cur = <<>> THEN <<>> ELSE <<cur>>) \o SplitWords(Tail(s), <<>>)
         ELSE SplitWords(Tail(s), Append(cur, Head(s)))

\* text_to_word_sequence: lowercase, filtered characters become the split
\* character, split on it
text_to_word_sequence(s) ==
    SplitWords([i \in DOMAIN s |->
                   IF ToLower(s[i]) \in KerasFilters THEN " " ELSE ToLower(s[i])],
               <<>>)

RECURSIVE Flatten(_)
Flatten(ss) == IF ss = <<>> THEN <<>> ELSE Head(ss) \o Flatten(Tail(ss))

\* every word of the corpus, in reading order
CorpusWords(texts) ==
    Flatten([i \in DOMAIN texts |-> text_to_word_sequence(texts[i])])

\* word_counts: an OrderedDict, so its keys stand in first-seen order
RECURSIVE WordCounts(_, _)
WordCounts(ws, acc) ==
    IF ws = <<>> THEN acc
    ELSE LET w == Head(ws)
             seen == \E k \in DOMAIN acc : acc[k].word = w
         IN WordCounts(Tail(ws),
                IF seen
                THEN [k \in DOMAIN acc |->
                        IF acc[k].word = w
                        THEN [word |-> w, count |-> acc[k].count + 1]
                        ELSE acc[k]]
                ELSE Append(acc, [word |-> w, count |-> 1]))

\* one step of a stable sort by descending count: e goes behind every item
\* whose count is at least its own
InsertByCount_TiesFirst(sorted, e) ==
    LET before == SelectSeq(sorted, LAMBDA x : x.count > e.count)
        after == SelectSeq(sorted, LAMBDA x : x.count <= e.count)
    IN before \o <<e>> \o after

InsertByCount(sorted, e) ==
    LET before == SelectSeq(sorted, LAMBDA x : x.count >= e.count)
        after == SelectSeq(sorted, LAMBDA x : x.count < e.count)
    IN before \o <<e>> \o after

\* wcounts.sort(key=lambda x: x[1], reverse=True)
RECURSIVE SortByCount(_, _)
SortByCount(items, sorted) ==
    IF items = <<>> THEN sorted
    ELSE SortByCount(Tail(items), InsertByCount(sorted, Head(items)))

\* fit_on_texts: index_word[k] is the word whose word_index is k
fit_on_texts(num_words, texts) ==
    LET wcounts == SortByCount(WordCounts(CorpusWords(texts), <<>>), <<>>)
    IN [num_words |-> num_words,
        index_word |-> [k \in DOMAIN wcounts |-> wcounts[k].word]]

HasWord(tok, w) == \E k \in DOMAIN tok.index_word : tok.index_word[k] = w
WordIndex(tok, w) == IndexOf(tok.index_word, w)

\* a word without an index, or with an index of num_words or more, is left out
Kept_UpToCap(tok, w) == HasWord(tok, w) /\ WordIndex(tok, w) <= tok.num_words

Kept(tok, w) == HasWord(tok, w) /\ WordIndex(tok, w) < tok.num_words

texts_to_sequences(tok, texts) ==
    [i \in DOMAIN texts |->
        LET ws == text_to_word_sequence(texts[i])
            kept == SelectSeq(ws, LAMBDA w : Kept(tok, w))
        IN [k \in DOMAIN kept |-> WordIndex(tok, kept[k])]]

Zeros(n) == [k \in 1..n |-> 0]

LastN(s, n) == IF Len(s) > n THEN SubSeq(s, Len(s) - n + 1, Len(s)) ELSE s

PadOne_NoTruncate(s, maxlen) == Zeros(maxlen - Len(LastN(s, maxlen))) \o s

PadOne_Post(s, maxlen) ==
    LET trunc == LastN(s, maxlen) IN trunc \o Zeros(maxlen - Len(trunc))

PadOne_KeepFirst(s, maxlen) ==
    LET trunc == IF Len(s) > maxlen THEN SubSeq(s, 1, maxlen) ELSE s
    IN Zeros(maxlen - Len(trunc)) \o trunc

\* one row of pad_sequences: trunc = s[-maxlen:]; x[-len(trunc):] = trunc
PadOne(s, maxlen) ==
    LET trunc == LastN(s, maxlen) IN Zeros(maxlen - Len(trunc)) \o trunc

pad_sequences(seqs, maxlen) == [i \in DOMAIN seqs |-> PadOne(seqs[i], maxlen)]

CleanAll_SkipEmpty(revs) ==
    SelectSeq([i \in DOMAIN revs |-> clean_text(revs[i])], LAMBDA t : t # <<>>)

\* reviews = [clean_text(review) for review in reviews]
CleanAll(revs) == [i \in DOMAIN revs |-> clean_text(revs[i])]

\* the tokenizer refitted ahead of every text, on the texts up to that one
preprocess_text_FitPerText(revs, mw, ml) ==
    LET texts == CleanAll(revs)
        seqs == [i \in DOMAIN texts |->
                    texts_to_sequences(fit_on_texts(mw, SubSeq(texts, 1, i)),
                                       <<texts[i]>>)[1]]
    IN [padded |-> pad_sequences(seqs, ml), tokenizer |-> fit_on_texts(mw, texts),
        sequences |-> seqs, fits |-> Len(texts)]

\* preprocess_text, with its local `sequences` kept for inspection and the
\* number of fit_on_texts calls it makes
preprocess_text(revs, mw, ml) ==
    LET texts == CleanAll(revs)
        tok == fit_on_texts(mw, texts)
        seqs == texts_to_sequences(tok, texts)
    IN [padded |-> pad_sequences(seqs, ml), tokenizer |-> tok, sequences |-> seqs,
        fits |-> 1]

----------------------------------------------------------------------------
(* load_data and encode_labels. *)

\* the float nan that Series.map leaves for a key the dict lacks
NaN == -1

HeaderFields == 2

\* pd.read_csv(engine='python', on_bad_lines='skip'): a line with more fields
\* than the header is skipped, a shorter line is filled with missing values
read_csv(f) ==
    LET good == SelectSeq(f.rows, LAMBDA r : r.nfields <= HeaderFields)
    IN [i \in DOMAIN good |->
           [review |-> good[i].review,
            sentiment |-> IF good[i].nfields < HeaderFields
                          THEN "" ELSE good[i].sentiment]]

dropna_ReviewOnly(df) == SelectSeq(df, LAMBDA r : r.review # <<>>)

\* df.dropna(inplace=True)
dropna(df) == SelectSeq(df, LAMBDA r : r.review # <<>> /\ r.sentiment # "")

\* return df['review'], df['sentiment']
load_data(f) ==
    LET df == dropna(read_csv(f))
    IN [reviews |-> [i \in DOMAIN df |-> df[i].review],
        sentiments |-> [i \in DOMAIN df |-> df[i].sentiment]]

MapLabel(l) == IF l = "positive" THEN 1 ELSE IF l = "negative" THEN 0 ELSE NaN

\* sentiments.map({'positive': 1, 'negative': 0}).values
encode_labels(sents) == [i \in DOMAIN sents |-> MapLabel(sents[i])]

----------------------------------------------------------------------------
(* Inputs. *)

SeqsUpTo(S, n) == UNION {[1..k -> S] : k \in 0..n}

CleanChars == {"a", "B", "1", "!", " ", "\t"}

RawWords == {<<"a">>, <<"A", "!">>, <<"b">>, <<"c">>}

RECURSIVE JoinWords(_)
JoinWords(ws) ==
    IF ws = <<>> THEN <<>>
    ELSE IF Len(ws) = 1 THEN Head(ws)
    ELSE Head(ws) \o <<" ">> \o JoinWords(Tail(ws))

TextRow(ws) ==
    [review |-> JoinWords(ws), sentiment |-> "positive", nfields |-> HeaderFields]

\* the words ws laid out in rows that end at the positions in cuts
RECURSIVE CutRows(_, _, _)
CutRows(ws, cuts, from) ==
    IF from > Len(ws) THEN <<>>
    ELSE LET ahead == {c \in cuts : c >= from}
             end == IF ahead = {} THEN Len(ws)
                    ELSE CHOOSE c \in ahead : \A d \in ahead : c <= d
         IN <<TextRow(SubSeq(ws, from, end))>> \o CutRows(ws, cuts, end + 1)

\* files of at most MaxTextRows complete rows holding at most MaxTokens words
TextFiles ==
    UNION {{[exists |-> TRUE, rows |-> CutRows(ws, cuts, 1)] :
               cuts \in {c \in SUBSET (1..(Len(ws) - 1)) :
                            Cardinality(c) < MaxTextRows}} :
           ws \in SeqsUpTo(RawWords, MaxTokens)}

Cells == {<<>>, <<"!">>, <<"b", " ", "a">>}
LabelCells == {"", "positive", "negative", "neutral"}

FullWidthRows ==
    {[review |-> r, sentiment |-> l, nfields |-> HeaderFields] :
        r \in Cells, l \in LabelCells}
ShortRows == {[review |-> <<"b", " ", "a">>, sentiment |-> "", nfields |-> 1]}
LongRows ==
    {[review |-> <<"b", " ", "a">>, sentiment |-> "positive",
      nfields |-> HeaderFields + 1]}
FileRows == FullWidthRows \cup ShortRows \cup LongRows

\* the first data line has the header's width (read_csv reads a longer first
\* line as carrying an index column), and no review is a bare number, so
\* the review column is read as strings
StructFiles ==
    {[exists |-> TRUE, rows |-> rs] :
        rs \in {q \in SeqsUpTo(FileRows, MaxRows) :
                   q # <<>> => q[1] \in FullWidthRows}}

MissingFile == [exists |-> FALSE, rows |-> <<>>]

\* ["a a b", "b c"]
VocabExampleFile ==
    [exists |-> TRUE,
     rows |-> <<[review |-> <<"a", " ", "a", " ", "b">>, sentiment |-> "positive",
                 nfields |-> HeaderFields],
                [review |-> <<"b", " ", "c">>, sentiment |-> "negative",
                 nfields |-> HeaderFields]>>]

\* [("great movie", "positive"), ("bad film!!", "negative")]
EndToEndFile ==
    [exists |-> TRUE,
     rows |-> <<[review |-> <<"g","r","e","a","t"," ","m","o","v","i","e">>,
                 sentiment |-> "positive", nfields |-> HeaderFields],
                [review |-> <<"b","a","d"," ","f","i","l","m","!","!">>,
                 sentiment |-> "negative", nfields |-> HeaderFields]>>]

EndToEndConfig == <<10, 4>>

Files == TextFiles \cup StructFiles \cup {MissingFile, VocabExampleFile, EndToEndFile}

Configs(f) ==
    ((1..MaxWordsCap) \X (1..MaxLenCap))
        \cup (IF f = EndToEndFile THEN {EndToEndConfig} ELSE {})

NoTokenizer == [num_words |-> 0, index_word |-> <<>>]

----------------------------------------------------------------------------
(* clean_text on its own. *)

InitClean ==
    /\ text \in SeqsUpTo(CleanChars, MaxTextLen)
    /\ cleaned = <<>> /\ recleaned = <<>> /\ cpc = "start"
    /\ file = MissingFile /\ pc = "idle" /\ err = ""
    /\ reviews = <<>> /\ sentiments = <<>>
    /\ max_words = 0 /\ max_len = 0
    /\ sequences = <<>> /\ tokenizer = NoTokenizer
    /\ X = <<>> /\ y = <<>> /\ fits = 0
    /\ X_train = <<>> /\ X_test = <<>> /\ y_train = <<>> /\ y_test = <<>>

CleanText ==
    /\ cpc = "start"
    /\ cleaned' = clean_text(text)
    /\ cpc' = "cleaned"
    /\ UNCHANGED <<text, recleaned, pipeVars>>

CleanAgain ==
    /\ cpc = "cleaned"
    /\ recleaned' = clean_text(cleaned)
    /\ cpc' = "recleaned"
    /\ UNCHANGED <<text, cleaned, pipeVars>>

NextClean == CleanText \/ CleanAgain

SpecClean == InitClean /\ [][NextClean]_vars

----------------------------------------------------------------------------
(* The script: cells 8, 9 and 10. *)

Init ==
    /\ file \in Files
    /\ pc = "start" /\ err = ""
    /\ reviews = <<>> /\ sentiments = <<>>
    /\ max_words = 0 /\ max_len = 0
    /\ sequences = <<>> /\ tokenizer = NoTokenizer
    /\ X = <<>> /\ y = <<>> /\ fits = 0
    /\ X_train = <<>> /\ X_test = <<>> /\ y_train = <<>> /\ y_test = <<>>
    /\ text = <<>> /\ cleaned = <<>> /\ recleaned = <<>> /\ cpc = "idle"

\* reviews, sentiments = load_data(file_path)
LoadData ==
    /\ pc = "start"
    /\ IF file.exists
       THEN /\ reviews' = load_data(file).reviews
            /\ sentiments' = load_data(file).sentiments
            /\ pc' = "loaded"
            /\ err' = err
       ELSE /\ pc' = "failed"
            /\ err' = "FileNotFoundError"
            /\ UNCHANGED <<reviews, sentiments>>
    /\ UNCHANGED <<file, max_words, max_len, sequences, tokenizer, X, y, fits,
                   splitVars, cleanVars>>

\* max_words = ...; max_len = ...; X, tokenizer = preprocess_text(reviews, ...)
PreprocessText ==
    /\ pc = "loaded"
    /\ \E cfg \in Configs(file) :
          LET r == preprocess_text(reviews, cfg[1], cfg[2])
          IN /\ max_words' = cfg[1]
             /\ max_len' = cfg[2]
             /\ sequences' = r.sequences
             /\ tokenizer' = r.tokenizer
             /\ X' = r.padded
             /\ fits' = fits + r.fits
    /\ pc' = "preprocessed"
    /\ UNCHANGED <<file, err, reviews, sentiments, y, splitVars, cleanVars>>

\* y = encode_labels(sentiments)
EncodeLabels ==
    /\ pc = "preprocessed"
    /\ y' = encode_labels(sentiments)
    /\ pc' = "encoded"
    /\ UNCHANGED <<file, err, reviews, sentiments, max_words, max_len,
                   sequences, tokenizer, X, fits, splitVars, cleanVars>>

Next == LoadData \/ PreprocessText \/ EncodeLabels

Spec == Init /\ [][Next]_vars

----------------------------------------------------------------------------
(* The script to its end: the split of cell 10, then the cells that build, *)
(* train and score the two models.  What the models compute is left out;   *)
(* the steps are kept for what they read and write of the pipeline state.  *)

\* files of at most MaxTextRows complete rows holding at most MaxRunTokens words
RunTextFiles ==
    UNION {{[exists |-> TRUE, rows |-> CutRows(ws, cuts, 1)] :
               cuts \in {c \in SUBSET (1..(Len(ws) - 1)) :
                            Cardinality(c) < MaxTextRows}} :
           ws \in SeqsUpTo(RawWords, MaxRunTokens)}

\* every label is in the closed set, so training and scoring get 0/1 labels
RunFiles == RunTextFiles \cup {MissingFile, VocabExampleFile, EndToEndFile}

InitRun ==
    /\ file \in RunFiles
    /\ pc = "start" /\ err = ""
    /\ reviews = <<>> /\ sentiments = <<>>
    /\ max_words = 0 /\ max_len = 0
    /\ sequences = <<>> /\ tokenizer = NoTokenizer
    /\ X = <<>> /\ y = <<>> /\ fits = 0
    /\ X_train = <<>> /\ X_test = <<>> /\ y_train = <<>> /\ y_test = <<>>
    /\ text = <<>> /\ cleaned = <<>> /\ recleaned = <<>> /\ cpc = "idle"

\* ceil(test_size * n) for test_size=0.2
NTest(n) == (n + 4) \div 5

\* the orders the shuffle can leave n rows in
Perms(n) == {p \in [1..n -> 1..n] : \A i, j \in 1..n : p[i] = p[j] => i = j}

\* X_train, X_test, y_train, y_test = train_test_split(X, y, test_size=0.2,
\* random_state=42): the first n_test rows of a shuffle are the test set, the
\* rest the train set; an empty train set is a ValueError
TrainTestSplit ==
    /\ pc = "encoded"
    /\ LET n == Len(X)
           nt == NTest(n)
       IN IF n - nt = 0
          THEN /\ pc' = "failed"
               /\ err' = "ValueError"
               /\ UNCHANGED splitVars
          ELSE /\ \E p \in Perms(n) :
                     /\ X_test' = [k \in 1..nt |-> X[p[k]]]
                     /\ y_test' = [k \in 1..nt |-> y[p[k]]]
                     /\ X_train' = [k \in 1..(n - nt) |-> X[p[nt + k]]]
                     /\ y_train' = [k \in 1..(n - nt) |-> y[p[nt + k]]]
               /\ pc' = "split"
               /\ err' = err
    /\ UNCHANGED <<file, reviews, sentiments, max_words, max_len,
                   sequences, tokenizer, X, y, fits, cleanVars>>

\* cells 11 to 14: both models are built with Embedding(input_dim=max_words)
\* and fit on X_train, y_train
TrainModels ==
    /\ pc = "split"
    /\ pc' = "trained"
    /\ UNCHANGED <<file, err, reviews, sentiments, max_words, max_len,
                   sequences, tokenizer, X, y, fits, splitVars, cleanVars>>

\* cells 15 to 18: predict on X_test, accuracy and F1 against y_test
EvaluateModels ==
    /\ pc = "trained"
    /\ pc' = "evaluated"
    /\ UNCHANGED <<file, err, reviews, sentiments, max_words, max_len,
                   sequences, tokenizer, X, y, fits, splitVars, cleanVars>>

NextRun ==
    \/ LoadData \/ PreprocessText \/ EncodeLabels
    \/ TrainTestSplit \/ TrainModels \/ EvaluateModels

SpecRun == InitRun /\ [][NextRun]_vars

----------------------------------------------------------------------------
(* Properties of clean_text. *)

LetterPositions(s) ==
    SelectSeq([i \in DOMAIN s |-> i], LAMBDA i : IsLetter(s[i]))

IsDeleted(c) == ~IsLetter(c) /\ ~IsSpace(c)

\* C1: clean_text(x) holds only ASCII letters and single spaces, begins and
\* ends with a letter when it is not empty, keeps the letters of x in their
\* order, and has a space between two successive letters exactly when x has
\* whitespace somewhere between them (deleted characters leave nothing).
C1_CleanTextOutput ==
    cpc \in {"cleaned", "recleaned"} =>
        LET pin == LetterPositions(text)
            pout == LetterPositions(cleaned)
        IN /\ \A i \in DOMAIN cleaned : IsLetter(cleaned[i]) \/ cleaned[i] = " "
           /\ \A i \in 1..(Len(cleaned) - 1) :
                 ~(cleaned[i] = " " /\ cleaned[i + 1] = " ")
           /\ cleaned # <<>> => IsLetter(cleaned[1]) /\ IsLetter(cleaned[Len(cleaned)])
           /\ Len(pout) = Len(pin)
           /\ \A k \in DOMAIN pin : cleaned[pout[k]] = text[pin[k]]
           /\ \A k \in 1..(Len(pin) - 1) :
                 pout[k + 1] - pout[k] =
                    IF \E j \in (pin[k] + 1)..(pin[k + 1] - 1) : IsSpace(text[j])
                    THEN 2 ELSE 1

\* a text with leading whitespace, a tab, a deleted character and two words
C1_Witness ==
    /\ cpc = "cleaned"
    /\ text # <<>> /\ IsSpace(text[1])
    /\ \E i \in DOMAIN text : IsDeleted(text[i])
    /\ \E i \in DOMAIN text : text[i] = "\t"
    /\ \E i \in DOMAIN cleaned : cleaned[i] = " "

\* C2: clean_text(clean_text(x)) = clean_text(x) for every x.
C2_Idempotent == cpc = "recleaned" => recleaned = cleaned

\* two whitespace runs around a deleted character, between two letters
C2_Witness ==
    /\ cpc = "recleaned"
    /\ \E i \in 1..(Len(text) - 2) :
          IsSpace(text[i]) /\ IsDeleted(text[i + 1]) /\ IsSpace(text[i + 2])
    /\ \E i \in DOMAIN cleaned : cleaned[i] = " "
    /\ cleaned # text

----------------------------------------------------------------------------
(* Properties of the script. *)

Preprocessed == pc \in {"preprocessed", "encoded"}

\* the whitespace-delimited tokens of the i-th review once cleaned
TokensOf(i) == text_to_word_sequence(clean_text(reviews[i]))

IdOf(w) == IndexOf(tokenizer.index_word, w)

IdsOf(ws) == [k \in DOMAIN ws |-> IdOf(ws[k])]

\* the IDs of those of the tokens ws that rank inside the cap
RetainedIdsOf(ws) == IdsOf(SelectSeq(ws, LAMBDA w : IdOf(w) < max_words))

RetainedIds(i) == RetainedIdsOf(TokensOf(i))

\* C3: every sequence preprocess_text emits has exactly max_len elements,
\* and there is one sequence per text.
C3_ExactlyMaxLen ==
    Preprocessed =>
        /\ Len(X) = Len(reviews)
        /\ \A i \in DOMAIN X : Len(X[i]) = max_len

\* one text with no token after cleaning and one with more than max_len
C3_Witness ==
    /\ Preprocessed
    /\ \E i \in DOMAIN reviews : reviews[i] # <<>> /\ TokensOf(i) = <<>>
    /\ \E i \in DOMAIN reviews : Len(TokensOf(i)) > max_len

\* C4: for a text with fewer than max_len tokens the emitted sequence is a
\* block of zeros followed by the IDs of the text's tokens that rank inside
\* the vocabulary cap, in their order; no ID among them is zero.
C4_PrePadding ==
    Preprocessed =>
        \A i \in DOMAIN reviews :
            LET ws == TokensOf(i)
                ids == RetainedIdsOf(ws)
                pad == max_len - Len(ids)
            IN Len(ws) < max_len =>
                   /\ Len(X[i]) = max_len
                   /\ \A k \in 1..pad : X[i][k] = 0
                   /\ \A k \in DOMAIN ids : X[i][pad + k] = ids[k] /\ ids[k] # 0

\* a text with at least one emitted ID and at least one leading zero
C4_Witness ==
    /\ Preprocessed
    /\ \E i \in DOMAIN reviews :
          /\ Len(TokensOf(i)) < max_len
          /\ RetainedIds(i) # <<>>
          /\ X[i][1] = 0

\* C5 as stated: for a text with more than max_len tokens the emitted
\* sequence is the IDs of the last max_len tokens of that text.
C5_LastTokensOfText ==
    Preprocessed =>
        \A i \in DOMAIN reviews :
            LET ws == TokensOf(i) IN
            Len(ws) > max_len =>
                X[i] = [k \in 1..max_len |-> IdOf(ws[Len(ws) - max_len + k])]

\* C5 amended: for a text with more than max_len tokens that rank inside the
\* vocabulary cap, the emitted sequence is the IDs of the last max_len of
\* those tokens, in their order.
C5_LastRetainedTokens ==
    Preprocessed =>
        \A i \in DOMAIN reviews :
            LET ids == RetainedIds(i) IN
            Len(ids) > max_len =>
                X[i] = [k \in 1..max_len |-> ids[Len(ids) - max_len + k]]

\* a text that loses a token to the cap and then its earliest ID to max_len
C5_Witness ==
    /\ Preprocessed
    /\ \E i \in DOMAIN reviews :
          /\ Len(RetainedIds(i)) > max_len
          /\ Len(TokensOf(i)) > Len(RetainedIds(i))
          /\ RetainedIds(i)[1] # RetainedIds(i)[Len(RetainedIds(i)) - max_len + 1]

MinOf(a, b) == IF a < b THEN a ELSE b

\* the tokens of every cleaned review
CorpusTokens == [i \in DOMAIN reviews |-> TokensOf(i)]

\* how often w stands in the token stream all
CountIn(all, w) == Cardinality({p \in DOMAIN all : all[p] = w})

\* index_word lists every token of the corpus once, a more frequent token
\* before a less frequent one and, of two equally frequent tokens, the one
\* seen first before the other
RankedByFrequency(toks) ==
    LET iw == tokenizer.index_word
        all == Flatten(toks)
        count == [k \in DOMAIN iw |-> CountIn(all, iw[k])]
        first == [k \in DOMAIN iw |-> IndexOf(all, iw[k])]
    IN /\ Range(iw) = Range(all)
       /\ \A j, k \in DOMAIN iw :
             j < k =>
                \/ count[j] > count[k]
                \/ count[j] = count[k] /\ first[j] < first[k]

\* the emitted IDs are those of the tokens that hold the first n ranks
EmitsTopRanks(toks, n) ==
    LET iw == tokenizer.index_word
        top == {iw[k] : k \in 1..MinOf(n, Len(iw))}
    IN \A i \in DOMAIN reviews :
           sequences[i] = IdsOf(SelectSeq(toks[i], LAMBDA w : w \in top))

C7_UnknownLabelFails ==
    pc = "encoded" =>
        /\ Len(y) = Len(sentiments)
        /\ \A i \in DOMAIN sentiments :
              /\ sentiments[i] \in {"positive", "negative"}
              /\ y[i] = IF sentiments[i] = "positive" THEN 1 ELSE 0

IsComplete(r) == r.nfields = HeaderFields /\ r.review # <<>> /\ r.sentiment # ""

\* the rows of the file that have the header's width and both cells filled
CompleteRows == SelectSeq(file.rows, IsComplete)

Loaded == pc \in {"loaded", "preprocessed", "encoded"}

C9_FatalWhenNothingLoads ==
    (pc # "start" /\ (~file.exists \/ CompleteRows = <<>>)) => pc = "failed"

\* the sequence emitted for a review, written out from the fitted vocabulary
ExpectedRow(review) ==
    LET ws == text_to_word_sequence(clean_text(review))
        ids == IdsOf(SelectSeq(ws, LAMBDA w : IdOf(w) < max_words))
        n == MinOf(Len(ids), max_len)
    IN [k \in 1..max_len |->
           IF k <= max_len - n THEN 0 ELSE ids[Len(ids) - max_len + k]]

\* C10: X and y have one row per record that survives load_data, and row i
\* of X and entry i of y both come from the i-th surviving record; the
\* end-to-end example gives two sequences of length 4 and the labels [1, 0].
C10_AlignedRows ==
    pc = "encoded" =>
        /\ Len(X) = Len(CompleteRows) /\ Len(y) = Len(CompleteRows)
        /\ \A i \in DOMAIN CompleteRows :
              /\ X[i] = ExpectedRow(CompleteRows[i].review)
              /\ y[i] = (IF CompleteRows[i].sentiment = "positive" THEN 1
                         ELSE IF CompleteRows[i].sentiment = "negative" THEN 0
                         ELSE NaN)
        /\ (file = EndToEndFile /\ max_words = EndToEndConfig[1]
                /\ max_len = EndToEndConfig[2]) =>
              /\ X = << <<0, 0, 1, 2>>, <<0, 0, 3, 4>> >>
              /\ y = <<1, 0>>

\* two surviving records with different labels, the first one with a text
\* that is empty after cleaning, the second one with an emitted ID
C10_Witness ==
    /\ pc = "encoded"
    /\ Len(X) = 2
    /\ TokensOf(1) = <<>>
    /\ X[2][max_len] # 0
    /\ y[1] # y[2]

\* what holds of the vocabulary in every state of a run: nothing is
\* transformed before the fit, there is never a second fit, and once fitted
\* the vocabulary ranks the whole cleaned corpus and every sequence and every
\* row of X is the one that this vocabulary gives
VocabularyFitOnce ==
    /\ fits \in {0, 1}
    /\ fits = 0 <=> pc \in {"start", "loaded"} \/ err = "FileNotFoundError"
    /\ fits = 0 => tokenizer = NoTokenizer /\ sequences = <<>> /\ X = <<>>
    /\ fits = 1 =>
          LET toks == CorpusTokens
          IN /\ tokenizer.num_words = max_words
             /\ RankedByFrequency(toks)
             /\ Len(sequences) = Len(reviews) /\ Len(X) = Len(reviews)
             /\ \A i \in DOMAIN reviews :
                   /\ sequences[i] = RetainedIdsOf(toks[i])
                   /\ X[i] = ExpectedRow(reviews[i])

\* C11: in every run the vocabulary is fit exactly once, on the whole
\* cleaned corpus, before any text is transformed; every sequence is
\* produced with that one mapping, and no step after the fit (label
\* encoding, split, training, evaluation) changes the vocabulary or fits
\* again.
C11_FitOnceThenReadOnly ==
    /\ []VocabularyFitOnce
    /\ [][fits >= 1 => tokenizer' = tokenizer /\ fits' = fits]_vars

\* a finished run whose first text is one word that a later text outranks
C11_Witness ==
    /\ pc = "evaluated"
    /\ fits = 1
    /\ Len(reviews) = 2
    /\ Len(TokensOf(1)) = 1
    /\ sequences[1] = <<2>>

\* C12: every element of every emitted sequence is an integer in
\* 0..max_words - 1, so it indexes a row of Embedding(input_dim=max_words);
\* a token ranked outside the cap puts no element in its sequence, and the
\* tokens inside the cap put one element each.
C12_ElementsBelowCap ==
    Preprocessed =>
        /\ \A i \in DOMAIN X : \A k \in DOMAIN X[i] : X[i][k] \in 0..(max_words - 1)
        /\ \A i \in DOMAIN sequences :
              LET ws == TokensOf(i)
              IN /\ \A k \in DOMAIN sequences[i] : sequences[i][k] < max_words
                 /\ Len(sequences[i]) =
                       Cardinality({k \in DOMAIN ws : IdOf(ws[k]) < max_words})

\* one token is ranked outside the cap and dropped while another is emitted
\* with the highest ID the cap allows
C12_Witness ==
    /\ Preprocessed
    /\ max_words > 1
    /\ \E i \in DOMAIN reviews :
          /\ \E k \in DOMAIN TokensOf(i) : IdOf(TokensOf(i)[k]) >= max_words
          /\ Len(sequences[i]) < Len(TokensOf(i))
    /\ \E i \in DOMAIN X : \E k \in DOMAIN X[i] : X[i][k] = max_words - 1

====
